---- MODULE Spec2Model ----
(***************************************************************************)
(* A model of src/lesson-1/index.ts: the Currency value type, its parser,  *)
(* the four arithmetic operations, distribute, the accessors and the       *)
(* formatting code.                                                        *)
(*                                                                         *)
(* JavaScript numbers are modelled as exact signed rationals with the      *)
(* IEEE special values NaN, +Infinity, -Infinity and a signed zero.  A     *)
(* finite number is  s * (hi * Base + lo) / d : sign and magnitude, the     *)
(* numerator in two limbs so that amounts beyond 2^31 can be written.      *)
(* Strings are sequences of one-character strings.                         *)
(***************************************************************************)
EXTENDS Integers, Sequences, FiniteSets, TLC

\* ------------------------------------------------------------------------
\* Numbers
\* ------------------------------------------------------------------------

\* The limb base of a numerator.
Base == 2^15

RECURSIVE GCD(_, _)
GCD(a, b) == IF b = 0 THEN a ELSE GCD(b, a % b)

\* Magnitudes are pairs <<hi, lo>> standing for hi * Base + lo, 0 <= lo < Base.
BMake(hi, lo) == <<hi + (lo \div Base), lo % Base>>
BInt(n) == BMake(0, n)
BIsZero(a) == a[1] = 0 /\ a[2] = 0
BLess(a, b) == a[1] < b[1] \/ (a[1] = b[1] /\ a[2] < b[2])
BAdd(a, b) == BMake(a[1] + b[1], a[2] + b[2])
\* a - b for a >= b
BSub(a, b) == IF a[2] >= b[2] THEN <<a[1] - b[1], a[2] - b[2]>>
              ELSE <<a[1] - b[1] - 1, a[2] + Base - b[2]>>
\* a * m for a small multiplier 0 <= m < Base
BMulSmall(a, m) == BMake(a[1] * m, a[2] * m)
\* a * b where at most one of the two has a high limb
BMul(a, b) == IF b[1] = 0 THEN BMulSmall(a, b[2])
              ELSE IF a[1] = 0 THEN BMulSmall(b, a[2])
              ELSE BMake((a[1] * b[1]) * Base + a[1] * b[2] + a[2] * b[1], a[2] * b[2])
\* quotient and remainder of a by a small divisor g > 0
BQuot(a, g) == <<a[1] \div g, (((a[1] % g) * Base) + a[2]) \div g>>
BRem(a, g) == (((a[1] % g) * Base) + a[2]) % g

\* A number: k is "fin", "inf" or "nan"; s is the sign (1 or -1), also of a zero.
MkNum(k, s, m, d) == [k |-> k, s |-> s, hi |-> m[1], lo |-> m[2], d |-> d]
NaN == MkNum("nan", 1, <<0, 0>>, 1)
Inf(s) == MkNum("inf", s, <<0, 0>>, 1)
Zero(s) == MkNum("fin", s, <<0, 0>>, 1)
Mag(x) == <<x.hi, x.lo>>
\* s * m / d in lowest terms
Fin(s, m, d) == IF BIsZero(m) THEN Zero(s)
                ELSE LET g == GCD(d, BRem(m, d))
                     IN  MkNum("fin", s, BQuot(m, g), d \div g)
\* the number n / d for integers n and d > 0 that fit a machine word
Rat(n, d) == Fin(IF n < 0 THEN -1 ELSE 1, BInt(IF n < 0 THEN -n ELSE n), d)
Num(n) == Rat(n, 1)

IsNaN(x) == x.k = "nan"
IsInf(x) == x.k = "inf"
IsFin(x) == x.k = "fin"
IsZero(x) == x.k = "fin" /\ x.hi = 0 /\ x.lo = 0
IsInteger(x) == x.k = "fin" /\ x.d = 1
Neg(x) == IF IsNaN(x) THEN x ELSE [x EXCEPT !.s = -x.s]
Abs(x) == IF IsNaN(x) THEN x ELSE [x EXCEPT !.s = 1]

\* x < y on finite magnitudes m1/d1 and m2/d2
MagLess(x, y) == BLess(BMulSmall(Mag(x), y.d), BMulSmall(Mag(y), x.d))
\* JavaScript's x < y, x == y, x >= y (all false on NaN; -0 equals 0)
Lt(x, y) ==
  IF IsNaN(x) \/ IsNaN(y) THEN FALSE
  ELSE IF IsZero(x) /\ IsZero(y) THEN FALSE
  ELSE IF x.s # y.s THEN x.s < y.s
  ELSE IF IsInf(x) \/ IsInf(y)
       THEN IF x.s = 1 THEN (~IsInf(x)) /\ IsInf(y) ELSE IsInf(x) /\ ~IsInf(y)
  ELSE IF x.s = 1 THEN MagLess(x, y) ELSE MagLess(y, x)
NumEq(x, y) == ~IsNaN(x) /\ ~IsNaN(y) /\ ~Lt(x, y) /\ ~Lt(y, x)
Ge(x, y) == ~IsNaN(x) /\ ~IsNaN(y) /\ ~Lt(x, y)
Gt(x, y) == Lt(y, x)
\* ToBoolean of a number: 0, -0 and NaN are falsy
Truthy(x) == ~(IsNaN(x) \/ IsZero(x))

\* x * y
Mul(x, y) ==
  IF IsNaN(x) \/ IsNaN(y) THEN NaN
  ELSE IF IsInf(x) \/ IsInf(y)
       THEN IF IsZero(x) \/ IsZero(y) THEN NaN ELSE Inf(x.s * y.s)
  ELSE LET g1 == GCD(y.d, BRem(Mag(x), y.d))
           g2 == GCD(x.d, BRem(Mag(y), x.d))
       IN  Fin(x.s * y.s, BMul(BQuot(Mag(x), g1), BQuot(Mag(y), g2)),
               (x.d \div g2) * (y.d \div g1))
\* 1 / y for a finite non-zero y whose numerator fits one limb
Recip(y) == MkNum("fin", y.s, BInt(y.d), y.lo)
\* x / y
Div(x, y) ==
  IF IsNaN(x) \/ IsNaN(y) THEN NaN
  ELSE IF IsInf(x) THEN IF IsInf(y) THEN NaN ELSE Inf(x.s * y.s)
  ELSE IF IsInf(y) THEN Zero(x.s * y.s)
  ELSE IF IsZero(y) THEN IF IsZero(x) THEN NaN ELSE Inf(x.s * y.s)
  ELSE Mul(x, Recip(y))
\* x + y
Add(x, y) ==
  IF IsNaN(x) \/ IsNaN(y) THEN NaN
  ELSE IF IsInf(x) THEN IF IsInf(y) /\ x.s # y.s THEN NaN ELSE x
  ELSE IF IsInf(y) THEN y
  ELSE IF IsZero(x) /\ IsZero(y) THEN Zero(IF x.s = -1 /\ y.s = -1 THEN -1 ELSE 1)
  ELSE LET g == GCD(x.d, y.d)
           a == BMulSmall(Mag(x), y.d \div g)
           b == BMulSmall(Mag(y), x.d \div g)
           l == (x.d \div g) * y.d
       IN  IF x.s = y.s THEN Fin(x.s, BAdd(a, b), l)
           ELSE IF BLess(a, b) THEN Fin(y.s, BSub(b, a), l)
           ELSE IF BLess(b, a) THEN Fin(x.s, BSub(a, b), l)
           ELSE Zero(1)
Sub(x, y) == Add(x, Neg(y))

\* the integer part and the fraction of a finite magnitude
MagFloor(x) == BQuot(Mag(x), x.d)
MagHasFrac(x) == BRem(Mag(x), x.d) # 0
\* Math.floor, Math.ceil
MathFloor(x) ==
  IF ~IsFin(x) THEN x
  ELSE IF x.s = 1 THEN Fin(1, MagFloor(x), 1)
  ELSE Fin(-1, IF MagHasFrac(x) THEN BAdd(MagFloor(x), BInt(1)) ELSE MagFloor(x), 1)
MathCeil(x) == Neg(MathFloor(Neg(x)))
\* Math.round: floor(x + 0.5), a tie going to +Infinity; -0 for -0.5 <= x <= -0
MathRound(x) ==
  IF ~IsFin(x) THEN x
  ELSE IF IsZero(x) THEN x
  ELSE LET r == MathFloor(Add(x, Rat(1, 2)))
       IN  IF IsZero(r) THEN Zero(x.s) ELSE r
\* the operator ~~ : ToInt32 twice, truncation toward zero modulo 2^32
ToInt32(x) ==
  IF ~IsFin(x) THEN Zero(1)
  ELSE LET t == MagFloor(x)
           u == <<t[1] % (2^17), t[2]>>                     \* |x| mod 2^32
           w == IF x.s = 1 \/ BIsZero(u) THEN u
                ELSE BSub(<<2^17, 0>>, u)                   \* (-|x|) mod 2^32
       IN  IF w[1] >= 2^16 THEN Fin(-1, BSub(<<2^17, 0>>, w), 1)
           ELSE Fin(1, w, 1)
\* x % y: the remainder of the truncating division, with the sign of x
Mod(x, y) ==
  IF IsNaN(x) \/ IsNaN(y) \/ IsInf(x) \/ IsZero(y) THEN NaN
  ELSE IF IsInf(y) \/ IsZero(x) THEN x
  ELSE LET q == Div(Abs(x), Abs(y))
           r == Sub(Abs(x), Mul(Fin(1, MagFloor(q), 1), Abs(y)))
       IN  IF IsZero(r) THEN Zero(x.s) ELSE [r EXCEPT !.s = x.s]

\* ------------------------------------------------------------------------
\* Strings (sequences of characters) and the conversions to and from numbers
\* ------------------------------------------------------------------------

Digits == <<"0", "1", "2", "3", "4", "5", "6", "7", "8", "9">>
IsDigit(c) == \E i \in 1..10 : Digits[i] = c
DigitVal(c) == (CHOOSE i \in 1..10 : Digits[i] = c) - 1
Tail2(s, i) == SubSeq(s, i, Len(s))
\* the first index of character c in s, 0 when there is none
IndexOf(s, c) == IF \E i \in 1..Len(s) : s[i] = c
                 THEN CHOOSE i \in 1..Len(s) : s[i] = c /\ \A j \in 1..(i - 1) : s[j] # c
                 ELSE 0
LastIndexOf(s, c) == IF \E i \in 1..Len(s) : s[i] = c
                     THEN CHOOSE i \in 1..Len(s) : s[i] = c /\ \A j \in (i + 1)..Len(s) : s[j] # c
                     ELSE 0
\* s.replace(c, r) for a one-character pattern c: the first occurrence only
ReplaceFirst(s, c, r) == LET i == IndexOf(s, c)
                         IN  IF i = 0 THEN s ELSE SubSeq(s, 1, i - 1) \o r \o Tail2(s, i + 1)
\* s.replace(/c/g, r): every occurrence of character c
RECURSIVE ReplaceAll(_, _, _)
ReplaceAll(s, c, r) == IF s = << >> THEN << >>
                       ELSE (IF Head(s) = c THEN r ELSE <<Head(s)>>) \o ReplaceAll(Tail(s), c, r)
RECURSIVE Pow10(_)
Pow10(n) == IF n = 0 THEN 1 ELSE 10 * Pow10(n - 1)

\* the decimal digits of a magnitude
RECURSIVE BDigits(_)
BDigits(m) == IF m[1] = 0 /\ m[2] < 10 THEN <<Digits[m[2] + 1]>>
              ELSE BDigits(BQuot(m, 10)) \o <<Digits[BRem(m, 10) + 1]>>
\* the magnitude a digit string denotes
RECURSIVE BOfDigits(_, _)
BOfDigits(acc, s) == IF s = << >> THEN acc
                     ELSE BOfDigits(BAdd(BMulSmall(acc, 10), BInt(DigitVal(Head(s)))), Tail(s))
\* n as a string of exactly w digits (n < 10^w)
RECURSIVE PadDigits(_, _)
PadDigits(n, w) == IF w = 0 THEN << >> ELSE PadDigits(n \div 10, w - 1) \o <<Digits[(n % 10) + 1]>>

StrNaN == <<"N", "a", "N">>
StrInfinity == <<"I", "n", "f", "i", "n", "i", "t", "y">>

\* Number.prototype.toFixed(f): x to f decimals, the nearer one, the larger on a tie
ToFixed(x, f) ==
  IF IsNaN(x) THEN StrNaN
  ELSE IF IsInf(x) THEN (IF x.s = -1 THEN <<"-">> ELSE << >>) \o StrInfinity
  ELSE LET neg   == x.s = -1 /\ ~IsZero(x)
           whole == MagFloor(x)
           fn    == BRem(Mag(x), x.d) * Pow10(f)
           q     == (fn \div x.d) + (IF 2 * (fn % x.d) >= x.d THEN 1 ELSE 0)
           carry == q = Pow10(f)
           w     == IF carry THEN BAdd(whole, BInt(1)) ELSE whole
       IN  (IF neg THEN <<"-">> ELSE << >>) \o BDigits(w)
           \o (IF f = 0 THEN << >> ELSE <<".">> \o PadDigits(IF carry THEN 0 ELSE q, f))

IsSpace(c) == c = " "
RECURSIVE TrimLeft(_)
TrimLeft(s) == IF s # << >> /\ IsSpace(Head(s)) THEN TrimLeft(Tail(s)) ELSE s
RECURSIVE TrimRight(_)
TrimRight(s) == IF s # << >> /\ IsSpace(s[Len(s)]) THEN TrimRight(SubSeq(s, 1, Len(s) - 1)) ELSE s
\* an unsigned decimal literal: digits with at most one ".", at least one digit
IsDecimalLiteral(s) ==
  /\ \A i \in 1..Len(s) : IsDigit(s[i]) \/ s[i] = "."
  /\ \E i \in 1..Len(s) : IsDigit(s[i])
  /\ Cardinality({i \in 1..Len(s) : s[i] = "."}) <= 1
\* the value of a literal; trailing zeros of the fraction are dropped first, which
\* leaves the value alone and keeps the numerator short
RECURSIVE DropTrailingZeros(_)
DropTrailingZeros(s) == IF s # << >> /\ s[Len(s)] = "0"
                        THEN DropTrailingZeros(SubSeq(s, 1, Len(s) - 1)) ELSE s
DecimalValue(sgn, s) ==
  LET dot  == IndexOf(s, ".")
      int  == IF dot = 0 THEN s ELSE SubSeq(s, 1, dot - 1)
      frac == IF dot = 0 THEN << >> ELSE DropTrailingZeros(Tail2(s, dot + 1))
  IN  Fin(sgn, BOfDigits(<<0, 0>>, int \o frac), Pow10(Len(frac)))
\* ToNumber of a string (unary +), for strings without exponent or radix prefix
StringToNumber(str) ==
  LET t    == TrimRight(TrimLeft(str))
      sgn  == IF t # << >> /\ Head(t) = "-" THEN -1 ELSE 1
      body == IF t # << >> /\ Head(t) \in {"-", "+"} THEN Tail(t) ELSE t
  IN  IF t = << >> THEN Zero(1)
      ELSE IF body = StrInfinity THEN Inf(sgn)
      ELSE IF IsDecimalLiteral(body) THEN DecimalValue(sgn, body)
      ELSE NaN

\* ------------------------------------------------------------------------
\* The program: settings, parse, the constructor and the methods
\* ------------------------------------------------------------------------

\* JavaScript values handed to the program
NumV(x) == [t |-> "number", n |-> x]
StrV(str) == [t |-> "string", s |-> str]
ObjV(o) == [t |-> "Currency", o |-> o]
Undefined == [t |-> "undefined"]

\* const defaults
DefaultsTable ==
  [symbol |-> <<"$">>, separator |-> <<",">>, decimal |-> <<".">>,
   formatWithSymbol |-> FALSE, errorOnInvalid |-> FALSE, precision |-> Num(2),
   pattern |-> <<"!", "#">>, negativePattern |-> <<"-", "!", "#">>]

\* Object.assign(target, source): the target's properties, overwritten by the source's
ObjectAssign(target, source) ==
  [key \in (DOMAIN target) \cup (DOMAIN source) |->
     IF key \in DOMAIN source THEN source[key] ELSE target[key]]
Has(o, key) == key \in DOMAIN o

\* round, pow, rounding
round_halfAwayFromZero(v) ==
  IF ~IsFin(v) \/ IsZero(v) THEN v
  ELSE LET r == MathFloor(Add(Abs(v), Rat(1, 2)))
       IN  IF IsZero(r) THEN Zero(v.s) ELSE [r EXCEPT !.s = v.s]
round(v) == MathRound(v)
pow(p) == Num(Pow10(p.lo))
rounding(value, increment) == Mul(round(Div(value, increment)), increment)

\* value.replace(/\((.*)\)/, '-$1'): the first "(" up to the last ")" after it
ReplaceParens(str) ==
  LET i == IndexOf(str, "(")
      j == LastIndexOf(str, ")")
  IN  IF i = 0 \/ j < i THEN str
      ELSE SubSeq(str, 1, i - 1) \o <<"-">> \o SubSeq(str, i + 1, j - 1) \o Tail2(str, j + 1)
\* .replace(new RegExp('[^-\\d' + decimal + ']', 'g'), '')
StripNonNumeric(str, decimal) ==
  LET Keep(c) == c = "-" \/ IsDigit(c) \/ (\E i \in 1..Len(decimal) : decimal[i] = c)
  IN  SelectSeq(str, Keep)
\* .replace(new RegExp('\\' + decimal, 'g'), '.')
ConvertDecimal(str, decimal) == ReplaceAll(str, decimal[1], <<".">>)

\* the rounding of parse's last two lines: v = +v.toFixed(4); useRounding ? round(v) : v
RoundIf(w, useRounding) == IF useRounding THEN round(w) ELSE w
ParseRound(v, useRounding) == RoundIf(StringToNumber(ToFixed(v, 4)), useRounding)
\* Currency.prototype.value: the class declares the field and gives the prototype none
CurrencyPrototypeValue == Undefined
\* unary plus on a number or on undefined
UnaryPlus(value) == IF value.t = "number" THEN value.n ELSE NaN
\* v = v || 0
OrZero(v) == IF Truthy(v) THEN v ELSE Zero(1)
\* the string a string input is converted from: the three replacements
CleanString(str, decimal) ==
  ConvertDecimal(StripNonNumeric(ReplaceParens(str), decimal), decimal)
\* the string branch of parse, up to `v = v || 0`: [throw, v]
ParseString_throwWithoutDigit(str, opts, precision) ==
  IF opts.errorOnInvalid /\ ~(\E i \in 1..Len(str) : IsDigit(str[i]))
  THEN [throw |-> TRUE, v |-> NaN]
  ELSE [throw |-> FALSE,
        v |-> OrZero(Mul(StringToNumber(CleanString(str, opts.decimal)), precision))]
ParseString(str, opts, precision) ==
  [throw |-> FALSE,
   v |-> OrZero(Mul(StringToNumber(CleanString(str, opts.decimal)), precision))]
\* parse, up to the rounding of its last two lines: [throw, v]
ParseBranches(value, opts, precision) ==
  IF value.t = "number" \/ value.t = "Currency"
  THEN [throw |-> FALSE,
        v |-> Mul(UnaryPlus(IF value.t = "number" THEN value ELSE CurrencyPrototypeValue),
                  precision)]
  ELSE IF value.t = "string" THEN ParseString(value.s, opts, precision)
  ELSE IF opts.errorOnInvalid THEN [throw |-> TRUE, v |-> NaN]
  ELSE [throw |-> FALSE, v |-> Zero(1)]
ParseReturn(r, useRounding) ==
  IF r.throw THEN r ELSE [throw |-> FALSE, v |-> ParseRound(r.v, useRounding)]
\* function parse(value, opts, useRounding): [throw, v]
parse(value, opts, useRounding) ==
  ParseReturn(ParseBranches(value, opts, pow(opts.precision)), useRounding)

\* the settings object of the constructor: Object.assign({}, defaults, opts)
MergeSettings(defaultsTbl, opts) == ObjectAssign(ObjectAssign(<< >>, defaultsTbl), opts)
\* the module-level table after that call: the target is a fresh object
DefaultsAfter(defaultsTbl, opts) == defaultsTbl
\* what the constructor hands to parse: this.value, assigned only from a non-instance
ConstructorInput(value) == IF value.t # "Currency" THEN value ELSE Undefined
\* settings.increment = settings.increment || (1 / precision); settings.groups = ...
FinishSettings(settings, precision) ==
  ObjectAssign(settings,
    [increment |-> IF Has(settings, "increment") /\ Truthy(settings.increment)
                   THEN settings.increment ELSE Div(Num(1), precision),
     groups    |-> IF Has(settings, "useVedic") /\ settings.useVedic
                   THEN "vedicRegex" ELSE "groupRegex"])
\* the constructor after `v = parse(this.value, settings)`: the fields it assigns
ConstructorFields(p, settings, precision) ==
  IF p.throw THEN [throw |-> TRUE, obj |-> << >>]
  ELSE [throw |-> FALSE,
        obj |-> [intValue |-> p.v, value |-> Div(p.v, precision),
                 _settings |-> FinishSettings(settings, precision),
                 _precision |-> precision]]
ConstructorParse(input, settings) ==
  ConstructorFields(parse(input, settings, TRUE), settings, pow(settings.precision))
\* new Currency(value, opts): [throw, obj]
Constructor(value, opts, defaultsTbl) ==
  ConstructorParse(ConstructorInput(value), MergeSettings(defaultsTbl, opts))

\* toString(): rounding(intValue / _precision, increment).toFixed(precision)
toString(this) ==
  ToFixed(rounding(Div(this.intValue, this._precision), this._settings.increment),
          this._settings.precision.lo)
\* ToNumber of an operand of `*`: an instance goes through its toString()
ToNumber(value) ==
  IF value.t = "number" THEN value.n
  ELSE IF value.t = "string" THEN StringToNumber(value.s)
  ELSE IF value.t = "Currency" THEN StringToNumber(toString(value.o))
  ELSE NaN

\* The receiver after `intValue += ...` (and -=, *=, /=): the assignment is to the
\* destructured local, so the instance keeps its fields.
ReceiverAfter_fieldWrite(this, local) == [this EXCEPT !.intValue = local]
ReceiverAfter(this, local) == this

\* the settings an arithmetic method hands to the constructor: its own _settings
ResultOpts_none(this) == << >>
ResultOpts(this) == this._settings

\* `return new Currency(<arg>, _settings)` once the operand is parsed and the local
\* intValue updated: [throw, obj, local]
ReturnNew(this, p, local, arg, defaultsTbl) ==
  IF p.throw THEN [throw |-> TRUE, obj |-> << >>, local |-> this.intValue]
  ELSE [throw |-> FALSE,
        obj |-> Constructor(NumV(arg), ResultOpts(this), defaultsTbl).obj,
        local |-> local]
\* (intValue += <parsed>) / _precision
AddParsed(this, p, defaultsTbl) ==
  ReturnNew(this, p, Add(this.intValue, p.v),
            Div(Add(this.intValue, p.v), this._precision), defaultsTbl)
\* (intValue -= <parsed>) / _precision
SubtractParsed(this, p, defaultsTbl) ==
  ReturnNew(this, p, Sub(this.intValue, p.v),
            Div(Sub(this.intValue, p.v), this._precision), defaultsTbl)
\* (intValue *= <multiplier>) / pow(_settings.precision)
MultiplyBy(this, n, defaultsTbl) ==
  ReturnNew(this, [throw |-> FALSE], Mul(this.intValue, n),
            Div(Mul(this.intValue, n), pow(this._settings.precision)), defaultsTbl)
\* intValue /= <parsed>
DivideParsed(this, p, defaultsTbl) ==
  ReturnNew(this, p, Div(this.intValue, p.v), Div(this.intValue, p.v), defaultsTbl)
\* add(number), subtract(number): [throw, obj, local]
add(this, number, defaultsTbl) ==
  AddParsed(this, parse(number, this._settings, TRUE), defaultsTbl)
subtract(this, number, defaultsTbl) ==
  SubtractParsed(this, parse(number, this._settings, TRUE), defaultsTbl)
\* multiply(number): the operand is a plain multiplier, not parsed
multiply(this, number, defaultsTbl) == MultiplyBy(this, ToNumber(number), defaultsTbl)
\* divide(number): the divisor is parsed without the integer rounding
divide(this, number, defaultsTbl) ==
  DivideParsed(this, parse(number, this._settings, FALSE), defaultsTbl)

\* dollars(): ~~this.value ; cents(): ~~(intValue % _precision) ; toJSON(): this.value
dollars(this) == ToInt32(this.value)
cents(this) == ToInt32(Mod(this.intValue, this._precision))
toJSON(this) == this.value

\* a word character of \b, among the characters a number's string is made of
IsWordChar(c) == IsDigit(c) \/ c \in {"N", "a", "I", "n", "f", "i", "t", "y"}
\* (?=(\d{3})+\b) and (?=(\d\d)+\d\b) at position i: the n characters after i are
\* digits, n fits the grouping, and a word boundary follows them
Lookahead(str, i, groups) ==
  \E n \in 1..(Len(str) - i) :
    /\ \A j \in (i + 1)..(i + n) : IsDigit(str[j])
    /\ IF groups = "vedicRegex" THEN n >= 3 /\ n % 2 = 1 ELSE n % 3 = 0
    /\ (i + n = Len(str) \/ ~IsWordChar(str[i + n + 1]))
\* dollars.replace(groups, '$1' + separator)
RECURSIVE GroupFrom(_, _, _, _)
GroupFrom(str, i, groups, separator) ==
  IF i > Len(str) THEN << >>
  ELSE <<str[i]>>
       \o (IF IsDigit(str[i]) /\ Lookahead(str, i, groups) THEN separator ELSE << >>)
       \o GroupFrom(str, i + 1, groups, separator)
\* the string with a leading "-" removed, and its parts before and after the "."
StripMinus(str) == IF str # << >> /\ Head(str) = "-" THEN Tail(str) ELSE str
BeforeDot(str, dot) == IF dot = 0 THEN str ELSE SubSeq(str, 1, dot - 1)
AfterDot(str, dot) == IF dot = 0 THEN << >> ELSE Tail2(str, dot + 1)
FormatNumber(abs, dot, st) ==
  GroupFrom(BeforeDot(abs, dot), 1, st.groups, st.separator)
  \o (IF AfterDot(abs, dot) # << >> THEN st.decimal \o AfterDot(abs, dot) ELSE << >>)
FormatValues(abs, st) == FormatNumber(abs, IndexOf(abs, "."), st)
\* format(useSymbol); useSymbol is "true", "false" or "undefined"
format(this, useSymbol) ==
  ReplaceFirst(
    ReplaceFirst(IF Ge(this.value, Zero(1)) THEN this._settings.pattern
                 ELSE this._settings.negativePattern,
                 "!",
                 IF (IF useSymbol = "undefined" THEN this._settings.formatWithSymbol
                     ELSE useSymbol = "true")
                 THEN this._settings.symbol ELSE << >>),
    "#", FormatValues(StripMinus(toString(this)), this._settings))

\* distribute(count), before its loop: split and pennies
DistributeSplit(intValue, count) ==
  IF Ge(intValue, Zero(1)) THEN MathFloor(Div(intValue, count))
  ELSE MathCeil(Div(intValue, count))
DistributePennies_noAbs(intValue, split, count) == Sub(intValue, Mul(split, count))
DistributePennies(intValue, split, count) == Abs(Sub(intValue, Mul(split, count)))
\* the loop's condition: count !== 0
LoopContinues_greaterThanZero(count) == Gt(count, Zero(1))
LoopContinues(count) == ~NumEq(count, Zero(1))
\* `pennies-- >= 0 && (item = ...)`
WithPenny_offByOne(item, intValue, pennies, one, defaultsTbl) ==
  IF Ge(pennies, Zero(1))
  THEN IF Ge(intValue, Zero(1)) THEN add(item, one, defaultsTbl).obj
       ELSE subtract(item, one, defaultsTbl).obj
  ELSE item
\* pennies-- > 0 && (item = intValue >= 0 ? item.add(...) : item.subtract(...))
WithPenny(item, intValue, pennies, one, defaultsTbl) ==
  IF Gt(pennies, Zero(1))
  THEN IF Ge(intValue, Zero(1)) THEN add(item, one, defaultsTbl).obj
       ELSE subtract(item, one, defaultsTbl).obj
  ELSE item
\* one pass of the loop body: the item pushed
DistributeItem(intValue, precision, settings, split, pennies, defaultsTbl) ==
  WithPenny(Constructor(NumV(Div(split, precision)), settings, defaultsTbl).obj,
            intValue, pennies, NumV(Div(Num(1), precision)), defaultsTbl)

\* ------------------------------------------------------------------------
\* The state machine: a caller constructing instances and calling the methods
\* ------------------------------------------------------------------------

\* Arithmetic results are explored up to this many minor units either side of 0.
MaxCents == 4
\* distribute is called with counts up to this.
MaxCount == 3
\* a loop of distribute that does not end is followed for this many passes
MaxLoop == MaxCount + 1
\* addresses: the caller's variable, a call's operand and its result or the items
\* of a distribution
Addrs == 1..(MaxLoop + 2)

\* 2147483648.5, an amount whose major units do not fit 32 bits
BigAmount == Fin(1, <<2^17, 1>>, 2)
ConstructNumbers == {Rat(3, 100), Rat(-25, 1000), Rat(-5, 1000), BigAmount}
OperandNumbers == {Rat(1, 100), Rat(-25, 1000), Num(3)}
Strings == {<<"a", "b", "c">>, <<"-">>, <<"(", "0", ".", "0", "2", ")">>,
            <<"$", "0", ",", "0", "1">>}
OptsSet == {<< >>,
            [errorOnInvalid |-> TRUE],
            [precision |-> Num(1), decimal |-> <<",">>, useVedic |-> TRUE,
             increment |-> Rat(1, 2)]}
Counts == {Num(c) : c \in -1..MaxCount} \cup {Rat(1, 2)}
UseSymbols == {"true", "false", "undefined"}

VARIABLES
  defaults,   \* the module-level defaults table
  heap,       \* address -> instance, for the instances still referenced
  cur,        \* the caller's variable, the receiver of its calls: an address, or 0
  ret,        \* the last call: receiver, operand, what it returned and what it logged
  frame       \* the activation of distribute, while its loop runs

vars == <<defaults, heap, cur, ret, frame>>

NoObj == << >>
NoRet == [op |-> "none", kind |-> "none", this |-> 0, before |-> NoObj,
          arg |-> Undefined, argRef |-> 0, argBefore |-> NoObj, opts |-> << >>,
          local |-> NaN,
          ref |-> 0, refs |-> << >>, num |-> NaN, str |-> << >>, log |-> << >>]
NoFrame == [active |-> FALSE, this |-> 0, before |-> NoObj, count0 |-> NaN,
            count |-> NaN, split |-> NaN, pennies |-> NaN, distribution |-> << >>]

\* the smallest address not in use
Alloc(used) == CHOOSE a \in Addrs \ used : \A b \in Addrs \ used : a <= b
Range(f) == {f[i] : i \in DOMAIN f}
\* the addresses the caller or the running call still reference
Roots(c, r, f) ==
  ({c, r.argRef, r.ref, f.this} \cup Range(r.refs) \cup Range(f.distribution)) \ {0}
\* the heap with the instances in `new` written and the unreferenced ones collected
Collect(h, new, c, r, f) ==
  [a \in Roots(c, r, f) |-> IF a \in DOMAIN new THEN new[a] ELSE h[a]]

\* the operands of a call: primitives, and the instances the caller can name, which
\* are its variable and the instance the last call returned
Operands == {NumV(x) : x \in OperandNumbers} \cup {StrV(str) : str \in Strings} \cup {Undefined}
           \cup {[t |-> "Currency", o |-> heap[a], ref |-> a] : a \in {cur, ret.ref} \ {0}}
Primitives == {NumV(x) : x \in ConstructNumbers \cup OperandNumbers}
              \cup {StrV(str) : str \in Strings} \cup {Undefined}
ArgRef(x) == IF x.t = "Currency" THEN x.ref ELSE 0
ArgObj(x) == IF x.t = "Currency" THEN x.o ELSE NoObj
InRange(o) == ~IsFin(o.intValue) \/ (o.intValue.hi = 0 /\ o.intValue.lo <= MaxCents)
Idle == ~frame.active
HasCur == cur # 0

Init ==
  /\ defaults = DefaultsTable
  /\ heap = << >>
  /\ cur = 0
  /\ ret = NoRet
  /\ frame = NoFrame

\* what `new Currency(x, opts)` leaves for the caller when the constructor gives r
NewRet(x, opts, r) ==
  [NoRet EXCEPT !.op = "new", !.arg = x, !.argBefore = ArgObj(x), !.opts = opts,
                !.kind = IF r.throw THEN "throw" ELSE "Currency",
                !.ref = IF r.throw THEN 0 ELSE 1]
NewReturns(x, opts, r) ==
  /\ ret' = NewRet(x, opts, r)
  /\ cur' = IF r.throw THEN cur ELSE 1
  /\ heap' = IF r.throw THEN Collect(heap, << >>, cur, NewRet(x, opts, r), NoFrame)
             ELSE (1 :> r.obj)
  /\ defaults' = DefaultsAfter(defaults, opts)
  /\ UNCHANGED frame
\* cur = new Currency(value, opts): the caller's variable takes the new instance,
\* nothing else stays referenced, and the collector moves the instance to address 1.
\* A constructor that throws leaves the variable as it was.  The caller builds its
\* first instance from a primitive and later ones from the instance it holds.
New(x, opts) ==
  /\ Idle
  /\ IF x.t = "Currency" THEN x.ref = cur ELSE cur = 0
  /\ NewReturns(x, opts, Constructor(x, opts, defaults))

\* cur = <an instance the last call returned>: as above, moved to address 1
Keep(a) ==
  /\ Idle
  /\ a \in ({ret.ref} \cup Range(ret.refs)) \ {0}
  /\ ret.op # "new"
  /\ cur' = 1
  /\ ret' = NoRet
  /\ heap' = (1 :> heap[a])
  /\ UNCHANGED <<defaults, frame>>

\* what a method that returns (or throws instead of returning) an instance leaves
Returned(op, this, x, r, opts) ==
  LET a  == Alloc({this, ArgRef(x)})
      rt == [NoRet EXCEPT !.op = op, !.this = this, !.before = heap[this],
                          !.arg = x, !.argRef = ArgRef(x), !.argBefore = ArgObj(x),
                          !.local = r.local,
                          !.kind = IF r.throw THEN "throw" ELSE "Currency",
                          !.ref = IF r.throw THEN 0 ELSE a]
      nw == (IF r.throw THEN << >> ELSE (a :> r.obj))
            @@ (this :> ReceiverAfter(heap[this], r.local))
  IN  /\ ret' = rt
      /\ heap' = Collect(heap, nw, cur, rt, NoFrame)
      /\ defaults' = DefaultsAfter(defaults, opts)
      /\ UNCHANGED <<cur, frame>>

\* add, subtract, multiply and divide are followed on receivers, and to results,
\* within MaxCents
Arith(op, x, r) ==
  /\ Idle /\ HasCur
  /\ InRange(heap[cur])
  /\ IF r.throw THEN TRUE ELSE InRange(r.obj)
  /\ Returned(op, cur, x, r, heap[cur]._settings)

AddOp(x) == Arith("add", x, add(heap[cur], x, defaults))
SubtractOp(x) == Arith("subtract", x, subtract(heap[cur], x, defaults))
MultiplyOp(x) == Arith("multiply", x, multiply(heap[cur], x, defaults))
DivideOp(x) == Arith("divide", x, divide(heap[cur], x, defaults))

\* a call that returns a number or a string
Answer(op, kind, num, str, log) ==
  LET rt == [NoRet EXCEPT !.op = op, !.this = cur, !.before = heap[cur],
                          !.kind = kind, !.num = num, !.str = str, !.log = log]
  IN  /\ Idle /\ HasCur
      /\ ret' = rt
      /\ heap' = Collect(heap, << >>, cur, rt, NoFrame)
      /\ UNCHANGED <<defaults, cur, frame>>

\* dollars() also writes this.value to the console
DollarsOp == Answer("dollars", "number", dollars(heap[cur]), << >>, <<heap[cur].value>>)
CentsOp == Answer("cents", "number", cents(heap[cur]), << >>, << >>)
ToJSONOp == Answer("toJSON", "number", toJSON(heap[cur]), << >>, << >>)
ToStringOp == Answer("toString", "string", NaN, toString(heap[cur]), << >>)
FormatOp(useSymbol) == Answer("format", "string", NaN, format(heap[cur], useSymbol), << >>)

\* the activation of distribute(count) on instance o at address this, before the loop
EntryFrame(this, o, count, split) ==
  [active |-> TRUE, this |-> this, before |-> o, count0 |-> count, count |-> count,
   split |-> split, pennies |-> DistributePennies(o.intValue, split, count),
   distribution |-> << >>]
Enter(fr) ==
  /\ frame' = fr
  /\ ret' = NoRet
  /\ heap' = Collect(heap, << >>, cur, NoRet, fr)
  /\ UNCHANGED <<defaults, cur>>
\* distribute(count): entry, up to the loop; followed on receivers within MaxCents
DistributeCall(count) ==
  /\ Idle /\ HasCur
  /\ InRange(heap[cur])
  /\ Enter(EntryFrame(cur, heap[cur], count, DistributeSplit(heap[cur].intValue, count)))

\* the step of `pennies--` and `count--`
One == Num(1)
\* the loop's header, `for (; count !== 0; count--)`, around one pass: the pass
\* pushes one item, the address of which is the next free one
LoopPass ==
  /\ frame.active
  /\ LoopContinues(frame.count)
  /\ Len(frame.distribution) < MaxLoop
  /\ frame' = [frame EXCEPT !.distribution = Append(@, Alloc(DOMAIN heap)),
                            !.pennies = Sub(@, One),
                            !.count = Sub(@, One)]

\* one pass of the loop with its body
DistributeLoop ==
  LET o    == frame.before
      item == DistributeItem(o.intValue, o._precision, o._settings,
                             frame.split, frame.pennies, defaults)
  IN  /\ LoopPass
      /\ heap' = Collect(heap, Alloc(DOMAIN heap) :> item, cur, NoRet, frame')
      /\ defaults' = DefaultsAfter(defaults, o._settings)
      /\ UNCHANGED <<cur, ret>>

\* the loop's exit and `return distribution`
DistributeReturn ==
  LET rt == [NoRet EXCEPT !.op = "distribute", !.this = frame.this,
                          !.before = frame.before, !.arg = NumV(frame.count0),
                          !.kind = "array", !.refs = frame.distribution]
  IN  /\ frame.active
      /\ ~LoopContinues(frame.count)
      /\ ret' = rt
      /\ frame' = NoFrame
      /\ heap' = Collect(heap, << >>, cur, rt, NoFrame)
      /\ UNCHANGED <<defaults, cur>>

Next ==
  \/ \E x \in Primitives \cup Operands, opts \in OptsSet : New(x, opts)
  \/ \E a \in DOMAIN heap : Keep(a)
  \/ \E x \in Operands : AddOp(x)
  \/ \E x \in Operands : SubtractOp(x)
  \/ \E x \in Operands : MultiplyOp(x)
  \/ \E x \in Operands : DivideOp(x)
  \/ DollarsOp
  \/ CentsOp
  \/ ToJSONOp
  \/ ToStringOp
  \/ \E u \in UseSymbols : FormatOp(u)
  \/ \E count \in Counts : DistributeCall(count)
  \/ DistributeLoop
  \/ DistributeReturn

Spec == Init /\ [][Next]_vars

\* distribute runs to completion once called: its loop and its return are not
\* interleaved with anything that could starve them
FairSpec == Spec /\ WF_frame(LoopPass) /\ WF_vars(DistributeReturn)

--------------------------------------------------------------------------------
\* Properties

\* the integer a small whole number stands for
IntOf(x) == x.s * x.lo
IsSmallInteger(x) == IsInteger(x) /\ x.hi = 0
RECURSIVE SumInts(_)
SumInts(q) == IF q = << >> THEN 0 ELSE q[1] + SumInts(Tail(q))
AbsInt(n) == IF n < 0 THEN -n ELSE n
SignInt(n) == IF n < 0 THEN -1 ELSE 1
ArithOps == {"add", "subtract", "multiply", "divide"}
Methods == ArithOps \cup {"dollars", "cents", "toJSON", "toString", "format", "distribute"}
ErrorOnInvalid(opts) == Has(opts, "errorOnInvalid") /\ opts.errorOnInvalid
NoDigit(str) == \A i \in 1..Len(str) : ~IsDigit(str[i])
\* distribute(count) has returned, for a whole intValue and a whole count >= 1
Distributed ==
  /\ ret.op = "distribute"
  /\ IsSmallInteger(ret.before.intValue)
  /\ IsSmallInteger(ret.arg.n) /\ IntOf(ret.arg.n) >= 1
Shares == [i \in 1..Len(ret.refs) |-> heap[ret.refs[i]].intValue]

\* C1: for a whole intValue A and a whole count >= 1, distribute(count) returns
\* exactly count instances and their intValues add up to A.
C1_Conservation ==
  Distributed =>
    /\ Len(ret.refs) = IntOf(ret.arg.n)
    /\ \A i \in 1..Len(ret.refs) : IsSmallInteger(Shares[i])
    /\ SumInts([i \in 1..Len(ret.refs) |-> IntOf(Shares[i])]) = IntOf(ret.before.intValue)
\* -0.04 split three ways, with a leftover
C1_Witness ==
  /\ Distributed
  /\ IntOf(ret.before.intValue) = -4
  /\ IntOf(ret.arg.n) = 3

\* C2: with split the quotient intValue / count truncated toward zero and pennies
\* = |intValue - split * count| (always below count), the first `pennies` shares
\* are split + 1 (split - 1 for a negative intValue), every later share is split,
\* and any two shares differ by at most one.
C2_LeftoverFirst ==
  Distributed =>
    LET A       == IntOf(ret.before.intValue)
        n       == IntOf(ret.arg.n)
        split   == SignInt(A) * (AbsInt(A) \div n)
        pennies == AbsInt(A - split * n)
    IN  /\ pennies < n
        /\ Len(ret.refs) = n
        /\ \A i \in 1..Len(ret.refs) :
             /\ IsSmallInteger(Shares[i])
             /\ IntOf(Shares[i]) = IF i <= pennies
                                   THEN (IF ret.before.intValue.s = 1 THEN split + 1
                                         ELSE split - 1)
                                   ELSE split
        /\ \A i, j \in 1..Len(ret.refs) :
             AbsInt(IntOf(Shares[i]) - IntOf(Shares[j])) <= 1
\* 0.04 split three ways: 2, 1, 1
C2_Witness ==
  /\ Distributed
  /\ IntOf(ret.before.intValue) = 4 /\ ret.before.intValue.s = 1
  /\ IntOf(ret.arg.n) = 3
  /\ IntOf(Shares[1]) # IntOf(Shares[3])

\* new Currency(str, opts) has been called with a string without a digit
NewFromText == ret.op = "new" /\ ret.arg.t = "string" /\ NoDigit(ret.arg.s)
C4_Stated ==
  /\ ret.kind = "throw" =>
       /\ IF ret.op = "new" THEN ErrorOnInvalid(ret.opts)
          ELSE ret.before._settings.errorOnInvalid
       /\ ret.arg.t \notin {"number", "string", "Currency"}
  /\ (ret.op \in {"new", "add", "subtract", "divide"} /\ ret.arg.t = "Currency") =>
       ret.kind # "throw"

\* C5: no method changes its receiver or an operand, and add, subtract, multiply
\* and divide return a new instance, distinct from the receiver and the operand.
C5_Step ==
  /\ ret'.op \in Methods =>
       /\ cur' = cur /\ ret'.this = cur
       /\ heap'[cur] = heap[cur]
       /\ ret'.argRef # 0 => heap'[ret'.argRef] = heap[ret'.argRef]
       /\ (ret'.op \in ArithOps /\ ret'.kind = "Currency") =>
            ret'.ref \notin {ret'.this, ret'.argRef}
       /\ \A i \in 1..Len(ret'.refs) : ret'.refs[i] # ret'.this
  /\ frame'.active =>
       /\ cur' = cur /\ frame'.this = cur
       /\ heap'[cur] = heap[cur]
C5_Immutable == [][C5_Step]_vars
\* an add whose operand is another instance and whose sum differs from the receiver
C5_Witness ==
  /\ ret.op = "add" /\ ret.kind = "Currency"
  /\ ret.argRef \notin {0, ret.this}
  /\ heap[ret.ref].intValue # ret.before.intValue

\* C6: the result of add, subtract, multiply and divide, and every share of
\* distribute, carries the receiver's configuration; the module-level defaults
\* table is never modified.
SameConfig(o, this) == o._settings = this._settings /\ o._precision = this._precision
C6_Config ==
  /\ defaults = DefaultsTable
  /\ (ret.op \in ArithOps /\ ret.kind = "Currency") => SameConfig(heap[ret.ref], ret.before)
  /\ \A i \in 1..Len(ret.refs) : SameConfig(heap[ret.refs[i]], ret.before)
  /\ \A i \in 1..Len(frame.distribution) :
       SameConfig(heap[frame.distribution[i]], frame.before)
\* a distribution of an instance built with its own options
C6_Witness ==
  /\ ret.op = "distribute" /\ Len(ret.refs) >= 2
  /\ ret.before._settings.precision = Num(1)
  /\ ret.before._settings.decimal = <<",">>

\* C7, as the specification states it: add and subtract give intValue(receiver)
\* +/- parse(x); for an instance operand of the same configuration parse(x) is that
\* instance's intValue, and an instance built from an instance has its intValue.
C7_Stated ==
  /\ (ret.op \in {"add", "subtract"} /\ ret.kind = "Currency" /\ ret.arg.t = "Currency"
      /\ ret.argBefore._settings = ret.before._settings) =>
       NumEq(heap[ret.ref].intValue,
             IF ret.op = "add" THEN Add(ret.before.intValue, ret.argBefore.intValue)
             ELSE Sub(ret.before.intValue, ret.argBefore.intValue))
  /\ (ret.op = "new" /\ ret.kind = "Currency" /\ ret.arg.t = "Currency") =>
       NumEq(heap[ret.ref].intValue, ret.argBefore.intValue)

\* the whole part of a finite number, toward zero
Truncated(x) == Fin(x.s, MagFloor(x), 1)
\* C8, as the specification states it: dollars() is the amount truncated toward
\* zero, cents() the signed remainder, and dollars * precisionFactor + cents is
\* intValue, also beyond the signed 32-bit range.
C8_Stated ==
  /\ (ret.op = "dollars" /\ IsInteger(ret.before.intValue)) =>
       NumEq(ret.num, Truncated(Div(ret.before.intValue, ret.before._precision)))
  /\ (ret.op = "cents" /\ IsInteger(ret.before.intValue)) =>
       NumEq(Add(Mul(dollars(ret.before), ret.before._precision), ret.num),
             ret.before.intValue)

\* new Currency(n, opts) has returned, for a finite number n
NewFromNumber ==
  /\ ret.op = "new" /\ ret.kind = "Currency"
  /\ ret.arg.t = "number" /\ IsFin(ret.arg.n)
Scaled(n, o) == Mul(n, o._precision)
\* C9, as the specification states it: with useRounding set parse rounds the scaled
\* amount half away from zero, so that -2.5 gives -3.
C9_Stated ==
  NewFromNumber =>
    LET v == Scaled(ret.arg.n, heap[ret.ref])
        r == heap[ret.ref].intValue
    IN  /\ IsInteger(r)
        /\ NumEq(r, round_halfAwayFromZero(v))
\* C9, as the code has it: with useRounding set parse returns the whole number r
\* with r - 1/2 <= scaled < r + 1/2 (a tie goes toward +Infinity: -2.5 gives -2 and
\* 2.5 gives 3); with useRounding false the scaled amount is not rounded.
C9_Rounding ==
  /\ NewFromNumber =>
       LET v == Scaled(ret.arg.n, heap[ret.ref])
           r == heap[ret.ref].intValue
       IN  /\ IsInteger(r)
           /\ Ge(v, Sub(r, Rat(1, 2)))
           /\ Lt(v, Add(r, Rat(1, 2)))
  /\ (ret.op = "divide" /\ ret.arg.t = "number") =>
       ret.local = Div(ret.before.intValue, Scaled(ret.arg.n, ret.before))
\* -0.025 at precision 2: the scaled amount is the tie -2.5
C9_Witness ==
  /\ NewFromNumber
  /\ ret.arg.n = Rat(-25, 1000)
  /\ heap[ret.ref]._precision = Num(100)
  /\ IntOf(heap[ret.ref].intValue) = -2

\* C10: distribute(count) returns exactly when count is a whole number >= 0, after
\* count passes of its loop (none, and an empty array, for 0); a negative or a
\* fractional count moves away from 0 and the loop does not end.
WholeCount(c) == IsSmallInteger(c) /\ (c.s = 1 \/ IsZero(c))
C10_Returns ==
  ret.op = "distribute" => (WholeCount(ret.arg.n) /\ Len(ret.refs) = IntOf(ret.arg.n))
C10_Step ==
  (frame.active /\ frame'.active /\ ~WholeCount(frame.count0)) =>
    /\ Lt(frame'.count, frame.count)
    /\ ~NumEq(frame'.count, Zero(1))
    /\ Len(frame'.distribution) = Len(frame.distribution) + 1
C10_Termination ==
  /\ []C10_Returns
  /\ [][C10_Step]_vars
  /\ (frame.active /\ WholeCount(frame.count0)) ~> (ret.op = "distribute")
\* a call with count -1 that has gone through more passes than any count asks for
C10_Witness ==
  /\ frame.active
  /\ frame.count0 = Num(-1)
  /\ Len(frame.distribution) = MaxLoop
====
